---------------------------- MODULE Spec2Model ----------------------------
(***************************************************************************)
(* Model of the go-suid identifier library (suid.go, guid.go).             *)
(*                                                                         *)
(* An int64 is a sequence of 64 bits, most significant bit first, because  *)
(* the values the library packs (time << 30, 53-bit microsecond times) do  *)
(* not fit the model checker's integers.  A byte is a natural in 0..255.   *)
(* A text is a sequence of byte codes.                                     *)
(***************************************************************************)
EXTENDS Integers, Sequences, FiniteSets

W64 == 64

(***************************************************************************)
(* int64 arithmetic on bit sequences.                                      *)
(***************************************************************************)
Pow2(n) == 2^n

\* A function on 1..W64 written out as the tuple of its 64 values.
Bits(f) == SubSeq(f, 1, W64)

\* The int64 top * 2^60 + hi * 2^30 + lo, for top < 16 and hi, lo < 2^30.
Int64Of(top, hi, lo) ==
    Bits([i \in 1..W64 |->
            LET k == W64 - i
            IN  IF k < 30 THEN (lo \div Pow2(k)) % 2
                ELSE IF k < 60 THEN (hi \div Pow2(k - 30)) % 2
                ELSE (top \div Pow2(k - 60)) % 2])

\* int64(n) for a natural n < 2^31.
FromNat(n) == Int64Of(0, n \div Pow2(30), n % Pow2(30))

\* The j-th byte of w as a natural, byte 0 the most significant.
Chunk8(w, j) ==
    128 * w[8 * j + 1] + 64 * w[8 * j + 2] + 32 * w[8 * j + 3]
    + 16 * w[8 * j + 4] + 8 * w[8 * j + 5] + 4 * w[8 * j + 6]
    + 2 * w[8 * j + 7] + w[8 * j + 8]

\* The int64 whose eight bytes are b, most significant first.
FromBytes(b) ==
    Bits([i \in 1..W64 |->
            (b[((i - 1) \div 8) + 1] \div Pow2(7 - ((i - 1) % 8))) % 2])

\* The low `n` bits of w as a natural, n <= 30.
LowBits(w, n) ==
    (Chunk8(w, 7) + 256 * Chunk8(w, 6) + 65536 * Chunk8(w, 5)
     + 16777216 * (Chunk8(w, 4) % 64)) % Pow2(n)

\* w << n
Shl64(w, n) == Bits([i \in 1..W64 |-> IF i + n <= W64 THEN w[i + n] ELSE 0])

\* w >> n on a signed int64: the sign bit is copied in.
Sar64(w, n) == Bits([i \in 1..W64 |-> IF i - n >= 1 THEN w[i - n] ELSE w[1]])

\* a | b
Or64(a, b) == Bits([i \in 1..W64 |-> IF a[i] = 1 \/ b[i] = 1 THEN 1 ELSE 0])

\* a & b
And64(a, b) == Bits([i \in 1..W64 |-> IF a[i] = 1 /\ b[i] = 1 THEN 1 ELSE 0])

\* Byte-wise addition with carry, from byte j down to byte 0.
RECURSIVE Add64Loop(_, _, _, _, _)
Add64Loop(a, b, j, carry, acc) ==
    IF j < 0 THEN acc
    ELSE LET sum == Chunk8(a, j) + Chunk8(b, j) + carry
         IN  Add64Loop(a, b, j - 1, sum \div 256, << sum % 256 >> \o acc)

\* a + b, wrapping at 64 bits.
Add64(a, b) == FromBytes(Add64Loop(a, b, 7, 0, << >>))

\* -a in two's complement.
Neg64(a) == Add64(Bits([i \in 1..W64 |-> 1 - a[i]]), FromNat(1))

\* Byte-wise remainder, from byte j up to byte 7 (m < 2^22).
RECURSIVE URem64Loop(_, _, _, _)
URem64Loop(w, m, j, r) ==
    IF j > 7 THEN r ELSE URem64Loop(w, m, j + 1, (256 * r + Chunk8(w, j)) % m)

\* The bits of w read as an unsigned number, modulo m.
URem64(w, m) == URem64Loop(w, m, 0, 0)

\* a % m left out: the value goes on unreduced.
Rem64NoWrap(a, m) == a

\* a % m as Go computes it on int64: the result has the sign of a.
Rem64(a, m) ==
    IF a[1] = 0 THEN FromNat(URem64(a, m))
    ELSE Neg64(FromNat(URem64(Neg64(a), m)))

\* a < b on signed int64.
Less64(a, b) ==
    IF a[1] # b[1] THEN a[1] = 1
    ELSE \E i \in 1..W64 :
            /\ a[i] < b[i]
            /\ \A j \in 1..(i - 1) : a[j] = b[j]

\* byte(w): the low eight bits.
Byte64(w) == LowBits(w, 8)

(***************************************************************************)
(* uint8 arithmetic on naturals.                                           *)
(***************************************************************************)
RECURSIVE OrN(_, _)
OrN(a, b) ==
    IF a = 0 THEN b
    ELSE IF b = 0 THEN a
    ELSE (IF a % 2 = 1 \/ b % 2 = 1 THEN 1 ELSE 0) + 2 * OrN(a \div 2, b \div 2)

RECURSIVE AndN(_, _)
AndN(a, b) ==
    IF a = 0 \/ b = 0 THEN 0
    ELSE (IF a % 2 = 1 /\ b % 2 = 1 THEN 1 ELSE 0) + 2 * AndN(a \div 2, b \div 2)

\* b << n on a uint8: bits shifted past bit 7 are lost.
Shl8(b, n) == (b * Pow2(n)) % 256

\* b >> n on a uint8.
Shr8(b, n) == b \div Pow2(n)

\* Byte-wise lexicographic order on byte sequences (bytes.Compare(s, t) < 0).
LexLess(s, t) ==
    \/ \E i \in 1..Len(s) :
          /\ i <= Len(t)
          /\ s[i] < t[i]
          /\ \A j \in 1..(i - 1) : s[j] = t[j]
    \/ /\ Len(s) < Len(t)
       /\ \A j \in 1..Len(s) : s[j] = t[j]

(***************************************************************************)
(* suid.go: constants and tables.                                          *)
(***************************************************************************)
MAX_HOST == 255
MAX_SEQ == 4194303
\* 0x1ffffffff
MAX_TIME == Int64Of(0, 7, Pow2(30) - 1)
MAX_GROUP == 7

RECURSIVE bitWidth(_)
bitWidth(max) == IF max < 2 THEN 1 ELSE 1 + bitWidth(max \div 2)

_WID_SEQ == bitWidth(MAX_SEQ)
_WID_HOST == bitWidth(MAX_HOST)

\* "abcdefghijklmnopqrstuvwxyz123456" as byte codes.
_ENCODE == [i \in 1..32 |-> IF i <= 26 THEN 96 + i ELSE 48 + (i - 26)]

\* init(): _DECODE[_ENCODE[i]] = byte(i)
_DECODE ==
    [b \in {_ENCODE[i] : i \in 1..32} |->
        (CHOOSE i \in 1..32 : _ENCODE[i] = b) - 1]

NilErr == "nil"

(***************************************************************************)
(* suid.go: the SUID value, its accessors and its text codec.              *)
(***************************************************************************)
\* SUIDPack with the two shifts exchanged: the sequence above the time.
SUIDPackSwapped(thisTime, seq, host) ==
    Or64(Or64(Shl64(seq, _WID_SEQ + _WID_HOST), Shl64(thisTime, _WID_HOST)),
         host)

\* SUIDPack with the time shifted by the sequence width only.
SUIDPackNarrow(thisTime, seq, host) ==
    Or64(Or64(Shl64(thisTime, _WID_SEQ), Shl64(seq, _WID_HOST)), host)

\* thisTime<<(_WID_SEQ+_WID_HOST) | seq<<_WID_HOST | _HOST_ID
SUIDPack(thisTime, seq, host) ==
    Or64(Or64(Shl64(thisTime, _WID_SEQ + _WID_HOST), Shl64(seq, _WID_HOST)),
         host)

FromInteger(value) == value

SUID_Integer(s) == s

\* s.value >> _WID_HOST & MAX_SEQ
SUID_Seq(s) == And64(Sar64(s, _WID_HOST), FromNat(MAX_SEQ))

\* s.value & MAX_HOST
SUID_Host(s) == And64(s, FromNat(MAX_HOST))

\* s.value >> (_WID_SEQ + _WID_HOST) & MAX_TIME
SUID_Time(s) == And64(Sar64(s, _WID_SEQ + _WID_HOST), MAX_TIME)

\* encode with the mask 0x0f in place of 0x1f.
RECURSIVE encodeLoopMasked(_, _, _)
encodeLoopMasked(bytes, i, j) ==
    IF j < 0 THEN bytes
    ELSE encodeLoopMasked([bytes EXCEPT ![j + 1] = _ENCODE[LowBits(i, 4) + 1]],
                          Sar64(i, 5), j - 1)

encodeMasked(i) == encodeLoopMasked([k \in 1..13 |-> 0], i, 12)

\* The loop of encode: bytes[j] = _ENCODE[i&0x1f]; i >>= 5, for j = 12 .. 0.
RECURSIVE encodeLoop(_, _, _)
encodeLoop(bytes, i, j) ==
    IF j < 0 THEN bytes
    ELSE encodeLoop([bytes EXCEPT ![j + 1] = _ENCODE[LowBits(i, 5) + 1]],
                    Sar64(i, 5), j - 1)

encode(i) == encodeLoop([k \in 1..13 |-> 0], i, 12)

SUID_String(s) == encode(s)

\* The loop of decode: value = (value << 5) | int64(idx), for i = 0 .. 12.
RECURSIVE decodeLoop(_, _, _)
decodeLoop(data, value, i) ==
    IF i >= 13 THEN [value |-> value, err |-> NilErr]
    ELSE IF data[i + 1] \notin DOMAIN _DECODE
         THEN [value |-> FromNat(0), err |-> "invalid character in suid string"]
         ELSE decodeLoop(data,
                         Or64(Shl64(value, 5), FromNat(_DECODE[data[i + 1]])),
                         i + 1)

\* decode with the length test len(data) < 13 in place of len(data) != 13.
decodeShortOnly(data) ==
    IF Len(data) < 13
    THEN [value |-> FromNat(0), err |-> "invalid suid string length"]
    ELSE decodeLoop(data, FromNat(0), 0)

decode(data) ==
    IF Len(data) # 13
    THEN [value |-> FromNat(0), err |-> "invalid suid string length"]
    ELSE decodeLoop(data, FromNat(0), 0)

FromString(str) ==
    LET r == decode(str)
    IN  IF r.err # NilErr THEN [value |-> FromNat(0), err |-> r.err]
        ELSE [value |-> r.value, err |-> NilErr]

\* s.Time() > 1745400000
SUID_Verify(s) == Less64(FromNat(1745400000), SUID_Time(s))

\* MarshalJSON with the closing quote written at result[13].
SUID_MarshalJSONShort(s) == << 34 >> \o SubSeq(encode(s), 1, 12) \o << 34, 0 >>

\* result := make([]byte, 15); result[0] = '"'; copy(result[1:], encode(...));
\* result[14] = '"'
SUID_MarshalJSON(s) == << 34 >> \o encode(s) \o << 34 >>

\* UnmarshalText with s.value = i ahead of the error test.
SUID_UnmarshalTextEager(s, data) ==
    LET r == decode(data)
    IN  [s |-> r.value, err |-> r.err]

\* UnmarshalText on the receiver s: the receiver as the call leaves it, and
\* the error.
SUID_UnmarshalText(s, data) ==
    LET r == decode(data)
    IN  IF r.err # NilErr THEN [s |-> s, err |-> r.err]
        ELSE [s |-> r.value, err |-> NilErr]

SUID_UnmarshalJSON(s, data) ==
    IF Len(data) # 15 \/ data[1] # 34 \/ data[15] # 34
    THEN [s |-> s, err |-> "invalid suid json string"]
    ELSE SUID_UnmarshalText(s, SubSeq(data, 2, 14))

\* Scan on the receiver s.  value is the driver's value: its dynamic type and
\* what it holds.  Only an int64 is taken.
SUID_Scan(s, value) ==
    IF value.type = "int64" THEN [s |-> value.v, err |-> NilErr]
    ELSE [s |-> s, err |-> "unsupported type for SUID"]

(***************************************************************************)
(* guid.go: the GUID value (ten bytes), its accessors and its text codec.  *)
(***************************************************************************)
_max_seq == 131071

\* 2^53 - 1: the largest time the 53 bits of a GUID hold.
MAX_GUID_TIME == Int64Of(0, 8388607, Pow2(30) - 1)

ZeroGUID == [i \in 1..10 |-> 0]

\* GUIDPack with byte 8 taken from seq rather than seq >> 1.
GUIDPackSlip(g, time, seq, host) ==
    << OrN(Shl8(g, 5), AndN(Byte64(Sar64(time, 48)), 31)),
       Byte64(Sar64(time, 40)),
       Byte64(Sar64(time, 32)),
       Byte64(Sar64(time, 24)),
       Byte64(Sar64(time, 16)),
       Byte64(Sar64(time, 8)),
       Byte64(time),
       Byte64(Sar64(seq, 9)),
       Byte64(seq),
       Byte64(Or64(And64(Shl64(seq, 7), FromNat(128)), host)) >>

\* Lines 37-46 of NewGUID: the ten bytes built from group, time, seq, host.
GUIDPack(g, time, seq, host) ==
    << OrN(Shl8(g, 5), AndN(Byte64(Sar64(time, 48)), 31)),
       Byte64(Sar64(time, 40)),
       Byte64(Sar64(time, 32)),
       Byte64(Sar64(time, 24)),
       Byte64(Sar64(time, 16)),
       Byte64(Sar64(time, 8)),
       Byte64(time),
       Byte64(Sar64(seq, 9)),
       Byte64(Sar64(seq, 1)),
       Byte64(Or64(And64(Shl64(seq, 7), FromNat(128)), host)) >>

\* s[0] >> 5
GUID_Group(s) == Shr8(s[1], 5)

\* int64(s[9] & 0x7f)
GUID_HostID(s) == FromNat(AndN(s[10], 127))

\* int64(s[7])<<9 | int64(s[8])<<1 | int64(s[9])>>7
GUID_Seq(s) ==
    Or64(Or64(Shl64(FromNat(s[8]), 9), Shl64(FromNat(s[9]), 1)),
         Sar64(FromNat(s[10]), 7))

\* int64(s[6]) | int64(s[5])<<8 | ... | int64(s[0]&0x1f)<<48
GUID_Time(s) ==
    Or64(Or64(Or64(Or64(Or64(Or64(
        FromNat(s[7]),
        Shl64(FromNat(s[6]), 8)),
        Shl64(FromNat(s[5]), 16)),
        Shl64(FromNat(s[4]), 24)),
        Shl64(FromNat(s[3]), 32)),
        Shl64(FromNat(s[2]), 40)),
        Shl64(FromNat(AndN(s[1], 31)), 48))

encodeGUID(u) ==
    << _ENCODE[Shr8(u[1], 3) + 1],
       _ENCODE[OrN(AndN(Shl8(u[1], 2), 31), Shr8(u[2], 6)) + 1],
       _ENCODE[AndN(Shr8(u[2], 1), 31) + 1],
       _ENCODE[OrN(AndN(Shl8(u[2], 4), 31), Shr8(u[3], 4)) + 1],
       _ENCODE[OrN(AndN(Shl8(u[3], 1), 31), Shr8(u[4], 7)) + 1],
       _ENCODE[AndN(Shr8(u[4], 2), 31) + 1],
       _ENCODE[OrN(AndN(Shl8(u[4], 3), 31), Shr8(u[5], 5)) + 1],
       _ENCODE[AndN(u[5], 31) + 1],
       _ENCODE[Shr8(u[6], 3) + 1],
       _ENCODE[OrN(AndN(Shl8(u[6], 2), 31), Shr8(u[7], 6)) + 1],
       _ENCODE[AndN(Shr8(u[7], 1), 31) + 1],
       _ENCODE[OrN(AndN(Shl8(u[7], 4), 31), Shr8(u[8], 4)) + 1],
       _ENCODE[OrN(AndN(Shl8(u[8], 1), 31), Shr8(u[9], 7)) + 1],
       _ENCODE[AndN(Shr8(u[9], 2), 31) + 1],
       _ENCODE[OrN(AndN(Shl8(u[9], 3), 31), Shr8(u[10], 5)) + 1],
       _ENCODE[AndN(u[10], 31) + 1] >>

GUID_String(s) == encodeGUID(s)

\* The loop of decodeGUID: d[i] = idx written into the caller's slice, until
\* a byte outside the alphabet ends it.
RECURSIVE decodeGUIDLoop(_, _)
decodeGUIDLoop(d, i) ==
    IF i >= Len(d) THEN [d |-> d, err |-> NilErr]
    ELSE IF d[i + 1] \notin DOMAIN _DECODE
         THEN [d |-> d, err |-> "invalid character in uuid string"]
         ELSE decodeGUIDLoop([d EXCEPT ![i + 1] = _DECODE[d[i + 1]]], i + 1)

\* decodeGUIDBytes with d[4]<<6 in place of d[4]<<7 in byte 3.
decodeGUIDBytesSlip(d) ==
    << OrN(Shl8(d[1], 3), Shr8(d[2], 2)),
       OrN(OrN(Shl8(d[2], 6), Shl8(d[3], 1)), Shr8(d[4], 4)),
       OrN(Shl8(d[4], 4), Shr8(d[5], 1)),
       OrN(OrN(Shl8(d[5], 6), Shl8(d[6], 2)), Shr8(d[7], 3)),
       OrN(Shl8(d[7], 5), d[8]),
       OrN(Shl8(d[9], 3), Shr8(d[10], 2)),
       OrN(OrN(Shl8(d[10], 6), Shl8(d[11], 1)), Shr8(d[12], 4)),
       OrN(Shl8(d[12], 4), Shr8(d[13], 1)),
       OrN(OrN(Shl8(d[13], 7), Shl8(d[14], 2)), Shr8(d[15], 3)),
       OrN(Shl8(d[15], 5), d[16]) >>

\* Lines 183-192 of decodeGUID, on the slice of 5-bit indexes.
decodeGUIDBytes(d) ==
    << OrN(Shl8(d[1], 3), Shr8(d[2], 2)),
       OrN(OrN(Shl8(d[2], 6), Shl8(d[3], 1)), Shr8(d[4], 4)),
       OrN(Shl8(d[4], 4), Shr8(d[5], 1)),
       OrN(OrN(Shl8(d[5], 7), Shl8(d[6], 2)), Shr8(d[7], 3)),
       OrN(Shl8(d[7], 5), d[8]),
       OrN(Shl8(d[9], 3), Shr8(d[10], 2)),
       OrN(OrN(Shl8(d[10], 6), Shl8(d[11], 1)), Shr8(d[12], 4)),
       OrN(Shl8(d[12], 4), Shr8(d[13], 1)),
       OrN(OrN(Shl8(d[13], 7), Shl8(d[14], 2)), Shr8(d[15], 3)),
       OrN(Shl8(d[15], 5), d[16]) >>

\* decodeGUID: the GUID, the error, and the caller's slice as the call leaves it.
decodeGUID(d) ==
    IF Len(d) # 16
    THEN [u |-> ZeroGUID, err |-> "invalid suid string length", d |-> d]
    ELSE LET r == decodeGUIDLoop(d, 0)
         IN  IF r.err # NilErr
             THEN [u |-> ZeroGUID, err |-> r.err, d |-> r.d]
             ELSE [u |-> decodeGUIDBytes(r.d), err |-> NilErr, d |-> r.d]

\* ParseGUID decodes a fresh copy of the string's bytes.
ParseGUID(str) ==
    LET r == decodeGUID(str)
    IN  [u |-> r.u, err |-> r.err]

\* s.Group() <= uint8(MAX_GROUP) && s.HostID() <= MAX_HOST &&
\* s.Seq() <= MAX_SEQ && s.Time() >= 1770904743122773
GUID_Verify(s) ==
    /\ GUID_Group(s) <= MAX_GROUP
    /\ ~Less64(FromNat(MAX_HOST), GUID_HostID(s))
    /\ ~Less64(FromNat(MAX_SEQ), GUID_Seq(s))
    /\ ~Less64(GUID_Time(s), Int64Of(0, 1649283, 606410581))

GUID_MarshalJSON(s) == << 34 >> \o encodeGUID(s) \o << 34 >>

\* UnmarshalText on the receiver s; data is the caller's slice, which
\* decodeGUID writes into.
GUID_UnmarshalText(s, data) ==
    LET r == decodeGUID(data)
    IN  IF r.err # NilErr THEN [s |-> s, err |-> r.err, data |-> r.d]
        ELSE [s |-> r.u, err |-> NilErr, data |-> r.d]

\* UnmarshalJSON hands data[1:17], a window of the caller's slice, on.
GUID_UnmarshalJSON(s, data) ==
    IF Len(data) # 18 \/ data[1] # 34 \/ data[18] # 34
    THEN [s |-> s, err |-> "invalid guid json string", data |-> data]
    ELSE LET r == GUID_UnmarshalText(s, SubSeq(data, 2, 17))
         IN  [s |-> r.s, err |-> r.err,
              data |-> << data[1] >> \o r.data \o << data[18] >>]

\* Scan on the receiver s: only a string is taken, and parsed by ParseGUID.
GUID_Scan(s, value) ==
    IF value.type = "string"
    THEN LET r == ParseGUID(value.v)
         IN  IF r.err # NilErr THEN [s |-> s, err |-> r.err]
             ELSE [s |-> r.u, err |-> NilErr]
    ELSE [s |-> s, err |-> "unsupported type for SUID"]

(***************************************************************************)
(* uuid.go: the UUID value, ten bytes group(6)-time(34)-seq(32)-host(8),   *)
(* and its text codec.                                                     *)
(***************************************************************************)
\* The ten bytes NewUUID builds from the group, the clock reading in
\* seconds, the value _seq.Add(1) gave (a uint32) and the host id.
UUIDPack(g, time, seq, host) ==
    << OrN(Shl8(g, 2), AndN(Byte64(Sar64(time, 32)), 3)),
       Byte64(Sar64(time, 24)),
       Byte64(Sar64(time, 16)),
       Byte64(Sar64(time, 8)),
       Byte64(time),
       Byte64(Sar64(seq, 24)),
       Byte64(Sar64(seq, 16)),
       Byte64(Sar64(seq, 8)),
       Byte64(seq),
       Byte64(host) >>

\* encodeUUID is encodeGUID line by line.
encodeUUID(u) == encodeGUID(u)

\* _DECODE[k] as decodeUUID reads it: the zero byte for a key the map does
\* not hold.
DecodeAt(k) == IF k \in DOMAIN _DECODE THEN _DECODE[k] ELSE 0

\* decodeUUID: the bytes of the text are shifted and or-ed as they are, and
\* the result is the key looked up in _DECODE.
decodeUUID(d) ==
    IF Len(d) # 16
    THEN [u |-> ZeroGUID, err |-> "invalid suid string length"]
    ELSE [u |-> << DecodeAt(OrN(Shl8(d[1], 3), Shr8(d[2], 2))),
                   DecodeAt(OrN(OrN(Shl8(d[2], 6), Shl8(d[3], 1)), Shr8(d[4], 4))),
                   DecodeAt(OrN(Shl8(d[4], 4), Shr8(d[5], 1))),
                   DecodeAt(OrN(OrN(Shl8(d[5], 7), Shl8(d[6], 2)), Shr8(d[7], 3))),
                   DecodeAt(OrN(Shl8(d[7], 5), d[8])),
                   DecodeAt(OrN(Shl8(d[9], 3), Shr8(d[10], 2))),
                   DecodeAt(OrN(OrN(Shl8(d[10], 6), Shl8(d[11], 1)), Shr8(d[12], 4))),
                   DecodeAt(OrN(Shl8(d[12], 4), Shr8(d[13], 1))),
                   DecodeAt(OrN(OrN(Shl8(d[13], 7), Shl8(d[14], 2)), Shr8(d[15], 3))),
                   DecodeAt(OrN(Shl8(d[15], 5), d[16])) >>,
          err |-> NilErr]

UUID_String(s) == encodeUUID(s)
ParseUUID(str) == decodeUUID(str)

(***************************************************************************)
(* The generators: New (suid.go) and NewGUID (guid.go), each call run by a *)
(* goroutine of its own, and the wall clock the calls read.                *)
(*                                                                         *)
(* New and NewGUID share no mutable state (each has its own counter, and   *)
(* _HOST_ID is never written after start-up), so a run calls one of the    *)
(* two: `kind` says which.                                                 *)
(***************************************************************************)
VARIABLES
    kind,       \* the generator this run calls: "suid" (New) or "guid" (NewGUID)
    _HOST_ID,   \* the cached host id, set once by getHostID()
    _SEQ,       \* suid.go's shared counter (atomic.Int64)
    _seq,       \* guid.go's shared counter (atomic.Int64)
    clock,      \* what time.Now() reads: seconds for New, microseconds for NewGUID
    calls,      \* the calls in progress, each with its locals
    returned,   \* the calls that have returned, with what they returned
    hist,       \* counts of what has happened so far
    _Builders,  \* the mutex-based variant's map of builders, one per group
    _BuilderLock, \* the mutex that guards the map: 0 when free, else its holder
    arg,        \* codec runs: the input
    val,        \* codec runs: the two identifiers built from the input
    txt,        \* codec runs: their two text forms
    back        \* codec runs: what decoding the first text returned

vars == << kind, _HOST_ID, _SEQ, _seq, clock, calls, returned, hist, _Builders,
           _BuilderLock, arg, val, txt, back >>

codecVars == << arg, val, txt, back >>

MaxCalls == 3
MaxTicks == 1

None == "none"

\* Where the process runs: the host id getHostID() returned (it masks with
\* MAX_HOST) and the wall clock at start, in seconds and in microseconds.
\* The first: 2025-04-23 17:20:00 UTC.  The second: one tick before the last
\* time the time field holds (33 bits of seconds, 53 bits of microseconds).
\* The third: at that last time.
Deployments ==
    { [host |-> 3, sec |-> FromNat(1745400000),
       usec |-> Int64Of(0, 1649283, 606410581)],
      [host |-> 200, sec |-> Int64Of(0, 7, Pow2(30) - 2),
       usec |-> Int64Of(0, 8388607, Pow2(30) - 2)],
      [host |-> 127, sec |-> MAX_TIME, usec |-> MAX_GUID_TIME] }

\* Groups a caller passes to NewGUID: the largest valid one, and one too large.
Groups == {MAX_GROUP, MAX_GROUP + 1}

\* The groups the loops of NewGUID are made with: NewGUID() is group 0.
PastGroups == {0, MAX_GROUP}

\* What the process has done in the current tick before the run begins: a
\* loop for range max { New() } of some goroutine has made `made` calls, one
\* after the other, with group g.  The identifiers are dropped (first is
\* None), or the first one was kept, or, for New, the first call has taken
\* its counter value and has not read the clock yet ("held").
Pasts(k) ==
    LET max == IF k = "suid" THEN MAX_SEQ ELSE _max_seq
        gs == IF k = "suid" THEN {0} ELSE PastGroups
    IN  {[made |-> 0, first |-> None, g |-> 0]}
        \cup {[made |-> m, first |-> None, g |-> g] :
                 m \in {2, max - 2, max}, g \in gs}
        \cup {[made |-> max, first |-> f,
                g |-> IF k = "suid" THEN 0 ELSE MAX_GROUP] :
                 f \in IF k = "suid" THEN {"kept", "held"} ELSE {"kept"}}

\* atomic.Int64.Add(delta): the new value, read and written in one step.
AtomicAddLost(counter, delta) == counter
AtomicAdd(counter, delta) == Add64(counter, FromNat(delta))

Init ==
    /\ kind \in {"suid", "guid"}
    /\ \E d \in Deployments :
          /\ _HOST_ID = d.host
          /\ clock = IF kind = "suid" THEN d.sec ELSE d.usec
    /\ _Builders = << >>
    /\ _BuilderLock = 0
    /\ arg = [kind |-> None] /\ val = << >> /\ txt = << >> /\ back = << >>
    /\ \E p \in Pasts(kind) :
          LET one == FromNat(1)
              seq1 == Rem64(one, IF kind = "suid" THEN MAX_SEQ ELSE _max_seq)
              lo == IF p.first = None THEN 1 ELSE 2
          IN  /\ _SEQ = FromNat(IF kind = "suid" THEN p.made ELSE 0)
              /\ _seq = FromNat(IF kind = "guid" THEN p.made ELSE 0)
              /\ calls = IF p.first = "held"
                         THEN {[n |-> 1, c |-> one, seq |-> seq1,
                                st |-> clock]}
                         ELSE {}
              /\ returned = IF p.first = "kept"
                            THEN {[n |-> 1, c |-> one, t |-> clock,
                                   st |-> clock, g |-> p.g, seq |-> seq1,
                                   id |-> IF kind = "suid"
                                          THEN SUIDPack(clock, seq1,
                                                        FromNat(_HOST_ID))
                                          ELSE GUIDPack(p.g, clock, seq1,
                                                        FromNat(_HOST_ID))]}
                            ELSE {}
              /\ hist = [calls |-> IF p.first = None THEN 0 ELSE 1,
                         ticks |-> 0, adds |-> p.made,
                         done |-> IF p.first = "held" THEN p.made - 1
                                  ELSE p.made,
                         tickAdds |-> p.made,
                         rateOK |-> p.made <= MAX_SEQ, panics |-> 0,
                         past |-> p.made,
                         log |-> IF p.made >= lo
                                 THEN << [lo |-> lo, hi |-> p.made,
                                          g |-> p.g, t |-> clock] >>
                                 ELSE << >>]

\* New, line 75-76: seq := _SEQ.Add(1); seq = seq % MAX_SEQ
NewAdd ==
    LET c == AtomicAdd(_SEQ, 1)
    IN  /\ kind = "suid"
        /\ hist.calls < MaxCalls
        /\ _SEQ' = c
        /\ calls' = calls \cup
              {[n |-> hist.calls + 1, c |-> c, seq |-> Rem64(c, MAX_SEQ),
                st |-> clock]}
        /\ hist' = [hist EXCEPT !.calls = @ + 1, !.adds = @ + 1,
                                !.tickAdds = @ + 1,
                                !.rateOK = @ /\ hist.tickAdds + 1 <= MAX_SEQ]
        /\ UNCHANGED << kind, _HOST_ID, _seq, clock, returned, codecVars, _Builders, _BuilderLock >>

\* A caller between the Add and the clock reading of New made to wait for the
\* next second once the second's sequence values are used up.
NewReturnReadyWaits(call) ==
    kind = "suid" /\ call \in calls /\ hist.tickAdds <= MAX_SEQ + 1

\* New, lines 75-78: what a caller that has its sequence value needs for its
\* next step.  No lock, no sleep, no test of the clock or of the counter.
NewReturnReady(call) == kind = "suid" /\ call \in calls

\* New, line 77-78: thisTime := time.Now().UTC().Unix(); return SUID{...}
NewReturn(call) ==
    /\ NewReturnReady(call)
    /\ returned' = returned \cup
          {[n |-> call.n, c |-> call.c, t |-> clock, st |-> call.st, g |-> 0,
            seq |-> call.seq,
            id |-> SUIDPack(clock, call.seq, FromNat(_HOST_ID))]}
    /\ calls' = calls \ {call}
    /\ hist' = [hist EXCEPT !.done = @ + 1]
    /\ UNCHANGED << kind, _HOST_ID, _SEQ, _seq, clock, codecVars, _Builders, _BuilderLock >>

\* NewGUIDNow without the group check: the group goes on to g<<5 as it is.
NewGUIDNowUnchecked(g) ==
    /\ kind = "guid"
    /\ hist.calls < MaxCalls
    /\ calls' = calls \cup {[n |-> hist.calls + 1, g |-> g, time |-> clock]}
    /\ hist' = [hist EXCEPT !.calls = @ + 1]
    /\ UNCHANGED << kind, _HOST_ID, _SEQ, _seq, clock, returned, codecVars, _Builders, _BuilderLock >>

\* NewGUID with the counter taken before the group check: a rejected call uses
\* up a sequence value.
NewGUIDNowCounted(g) ==
    /\ kind = "guid"
    /\ hist.calls < MaxCalls
    /\ IF g > MAX_GROUP
       THEN /\ calls' = calls
            /\ _seq' = AtomicAdd(_seq, 1)
            /\ hist' = [hist EXCEPT !.calls = @ + 1, !.panics = @ + 1]
       ELSE /\ calls' = calls \cup {[n |-> hist.calls + 1, g |-> g, time |-> clock]}
            /\ _seq' = _seq
            /\ hist' = [hist EXCEPT !.calls = @ + 1]
    /\ UNCHANGED << kind, _HOST_ID, _SEQ, clock, returned, codecVars, _Builders, _BuilderLock >>

\* NewGUID, line 28-35: the group check (a panic for a group above MAX_GROUP),
\* then time := time.Now().UnixMicro()
NewGUIDNow(g) ==
    /\ kind = "guid"
    /\ hist.calls < MaxCalls
    /\ IF g > MAX_GROUP
       THEN /\ calls' = calls
            /\ hist' = [hist EXCEPT !.calls = @ + 1, !.panics = @ + 1]
       ELSE /\ calls' = calls \cup {[n |-> hist.calls + 1, g |-> g, time |-> clock]}
            /\ hist' = [hist EXCEPT !.calls = @ + 1]
    /\ UNCHANGED << kind, _HOST_ID, _SEQ, _seq, clock, returned, codecVars, _Builders, _BuilderLock >>

\* NewGUID, lines 35-47: what a caller that has read the clock needs for its
\* next step.
NewGUIDAddReady(call) == kind = "guid" /\ call \in calls

\* NewGUID, line 36-47: seq := _seq.Add(1) % _max_seq; the bytes; return u
NewGUIDAdd(call) ==
    LET c == AtomicAdd(_seq, 1)
    IN  /\ NewGUIDAddReady(call)
        /\ _seq' = c
        /\ returned' = returned \cup
              {[n |-> call.n, c |-> c, t |-> call.time, st |-> clock, g |-> call.g,
                seq |-> Rem64(c, _max_seq),
                id |-> GUIDPack(call.g, call.time, Rem64(c, _max_seq),
                                FromNat(_HOST_ID))]}
        /\ calls' = calls \ {call}
        /\ hist' = [hist EXCEPT !.adds = @ + 1, !.done = @ + 1, !.tickAdds = @ + 1]
        /\ UNCHANGED << kind, _HOST_ID, _SEQ, clock, codecVars, _Builders, _BuilderLock >>

\* The wall clock reaches its next tick: the next second for New, the next
\* microsecond for NewGUID.
Tick ==
    /\ hist.ticks < MaxTicks
    /\ clock' = Add64(clock, FromNat(1))
    /\ hist' = [hist EXCEPT !.ticks = @ + 1, !.tickAdds = 0]
    /\ UNCHANGED << kind, _HOST_ID, _SEQ, _seq, calls, returned, codecVars, _Builders, _BuilderLock >>

Next ==
    \/ NewAdd
    \/ \E call \in calls : NewReturn(call)
    \/ \E g \in Groups : NewGUIDNow(g)
    \/ \E call \in calls : NewGUIDAdd(call)
    \/ Tick

Spec == Init /\ [][Next]_vars

(***************************************************************************)
(* Codec runs: an input is turned into identifiers (FromInteger, a GUID    *)
(* value, or the packing New and NewGUID do), the identifiers into text    *)
(* (String), and the first text back into an identifier (FromString,       *)
(* ParseGUID).                                                             *)
(***************************************************************************)
MaxInt64 == Int64Of(7, Pow2(30) - 1, Pow2(30) - 1)
MinInt64 == Int64Of(8, 0, 0)
MinusOne == Int64Of(15, Pow2(30) - 1, Pow2(30) - 1)

\* int64 values given to FromInteger.
SUIDValues ==
    { FromNat(0), FromNat(1), FromNat(25), FromNat(26), FromNat(31),
      FromNat(32), FromNat(1745400001), Int64Of(1, 671658177, 1283),
      Int64Of(5, 357913941, 715827882), MaxInt64, MinInt64, MinusOne }

\* The GUID with bit k (0 the most significant of byte 0) set and no other.
OneBitGUID(k) ==
    [i \in 1..10 |-> IF i - 1 = k \div 8 THEN Pow2(7 - (k % 8)) ELSE 0]

FlipGUID(u) == [i \in 1..10 |-> 255 - u[i]]

\* The GUID whose first text symbol has index v and whose other bits are 0.
FirstSymbolGUID(v) == [i \in 1..10 |-> IF i = 1 THEN 8 * v ELSE 0]

GUIDValues ==
    {ZeroGUID, FlipGUID(ZeroGUID), FirstSymbolGUID(25), FirstSymbolGUID(26)}
    \cup {OneBitGUID(k) : k \in 0..79}
    \cup {FlipGUID(OneBitGUID(k)) : k \in 0..79}

GUIDOthers ==
    {ZeroGUID, FlipGUID(ZeroGUID), FirstSymbolGUID(25), FirstSymbolGUID(26),
     OneBitGUID(44)}

\* Clock readings, sequence values and host ids given to the packing of New:
\* the ends of each field, one value past the time field, and 1745400001/5/3.
PackTimes ==
    {FromNat(0), FromNat(1), FromNat(1745400001), MAX_TIME, Int64Of(0, 8, 0)}
PackSeqs == {FromNat(0), FromNat(5), FromNat(MAX_SEQ - 1), FromNat(MAX_SEQ)}
PackHosts == {0, 3, 127, 128, MAX_HOST}

\* The same for NewGUID: groups, microsecond readings to 2^53 and sequence
\* values to 2^17 - 1.
GPackGroups == {0, 5, MAX_GROUP}
GPackTimes ==
    {FromNat(0), FromNat(1), Int64Of(0, 1649283, 606410581),
     MAX_GUID_TIME, Int64Of(0, 8388608, 0)}
GPackSeqs == {FromNat(0), FromNat(1), FromNat(87381), FromNat(_max_seq)}

CodecInputs ==
    {[kind |-> "suid", a |-> x, b |-> y] : x \in SUIDValues, y \in SUIDValues}
    \cup {[kind |-> "guid", a |-> x, b |-> y] : x \in GUIDValues, y \in GUIDOthers}
    \cup {[kind |-> "newsuid", time |-> t, seq |-> q, host |-> h] :
            t \in PackTimes, q \in PackSeqs, h \in PackHosts}
    \cup {[kind |-> "newguid", g |-> g, time |-> t, seq |-> q, host |-> h] :
            g \in GPackGroups, t \in GPackTimes, q \in GPackSeqs, h \in PackHosts}

CodecInit ==
    /\ kind = "codec"
    /\ _HOST_ID = 0
    /\ _SEQ = FromNat(0)
    /\ _seq = FromNat(0)
    /\ clock = FromNat(0)
    /\ calls = {}
    /\ returned = {}
    /\ hist = [calls |-> 0, ticks |-> 0, adds |-> 0, done |-> 0,
               tickAdds |-> 0, rateOK |-> TRUE, panics |-> 0,
               log |-> << >>]
    /\ _Builders = << >>
    /\ _BuilderLock = 0
    /\ arg \in CodecInputs
    /\ val = << >> /\ txt = << >> /\ back = << >>

genVars ==
    << kind, _HOST_ID, _SEQ, _seq, clock, calls, returned, hist, _Builders,
       _BuilderLock >>

IsSUID == arg.kind \in {"suid", "newsuid"}

\* FromInteger(value)
CodecFromInteger ==
    /\ arg.kind = "suid" /\ val = << >>
    /\ val' = << FromInteger(arg.a), FromInteger(arg.b) >>
    /\ UNCHANGED << genVars, arg, txt, back >>

\* GUID{...}: a GUID is any ten bytes.
CodecGUIDValue ==
    /\ arg.kind = "guid" /\ val = << >>
    /\ val' = << arg.a, arg.b >>
    /\ UNCHANGED << genVars, arg, txt, back >>

\* New, line 78, for a given clock reading, sequence value and host id.
CodecNew ==
    /\ arg.kind = "newsuid" /\ val = << >>
    /\ LET id == SUIDPack(arg.time, arg.seq, FromNat(arg.host))
       IN  val' = << id, id >>
    /\ UNCHANGED << genVars, arg, txt, back >>

\* NewGUID, lines 37-47, for a given group, clock reading, sequence value and
\* host id.
CodecNewGUID ==
    /\ arg.kind = "newguid" /\ val = << >>
    /\ LET id == GUIDPack(arg.g, arg.time, arg.seq, FromNat(arg.host))
       IN  val' = << id, id >>
    /\ UNCHANGED << genVars, arg, txt, back >>

\* SUID.String()
CodecString ==
    /\ IsSUID /\ val # << >> /\ txt = << >>
    /\ txt' = << SUID_String(val[1]), SUID_String(val[2]) >>
    /\ UNCHANGED << genVars, arg, val, back >>

\* GUID.String()
CodecGUIDString ==
    /\ ~IsSUID /\ val # << >> /\ txt = << >>
    /\ txt' = << GUID_String(val[1]), GUID_String(val[2]) >>
    /\ UNCHANGED << genVars, arg, val, back >>

\* FromString(str)
CodecFromString ==
    /\ IsSUID /\ txt # << >> /\ back = << >>
    /\ back' = << FromString(txt[1]) >>
    /\ UNCHANGED << genVars, arg, val, txt >>

\* ParseGUID(str)
CodecParseGUID ==
    /\ ~IsSUID /\ txt # << >> /\ back = << >>
    /\ back' = << ParseGUID(txt[1]) >>
    /\ UNCHANGED << genVars, arg, val, txt >>

CodecNext ==
    \/ CodecFromInteger
    \/ CodecGUIDValue
    \/ CodecNew
    \/ CodecNewGUID
    \/ CodecString
    \/ CodecGUIDString
    \/ CodecFromString
    \/ CodecParseGUID

CodecSpec == CodecInit /\ [][CodecNext]_vars

(***************************************************************************)
(* Text runs: a text is decoded (FromString, ParseGUID), an identifier is  *)
(* verified (Verify), or an identifier goes through MarshalJSON and        *)
(* UnmarshalJSON.  One input per run.                                      *)
(***************************************************************************)
\* Bytes outside the alphabet: NUL, space, '0', '7', 'A', '`', '{', 0xff.
BadBytes == {0, 32, 48, 55, 65, 96, 123, 255}

\* A text, the text one byte shorter and one byte longer, the empty text, and
\* the text with one byte outside the alphabet at each position, in the
\* shorter and the longer text as well.
Spoiled(t) ==
    {t, SubSeq(t, 1, Len(t) - 1), t \o << 97 >>, << >>}
    \cup {[t EXCEPT ![p] = b] : p \in 1..Len(t), b \in BadBytes}
    \cup {[(SubSeq(t, 1, Len(t) - 1)) EXCEPT ![1] = b] : b \in BadBytes}
    \cup {[(t \o << 97 >>) EXCEPT ![Len(t) + 1] = b] : b \in BadBytes}

SUIDTexts == {encode(Int64Of(1, 671658177, 1283)), encode(MinusOne)}
GUIDTexts == {encodeGUID(FlipGUID(ZeroGUID)), encodeGUID(OneBitGUID(44))}

\* SUID texts whose first symbol is 'i' (01000) or 'q' (10000): 13 symbols
\* are 65 bits, and the first symbol's top bit is the 65th.
HighTexts == {[t EXCEPT ![1] = b] : t \in SUIDTexts, b \in {105, 113}}

TextInputs ==
    UNION {Spoiled(t) : t \in SUIDTexts} \cup GUIDTexts \cup HighTexts
GUIDTextInputs ==
    UNION {Spoiled(t) : t \in GUIDTexts} \cup SUIDTexts

\* The floors of Verify, the times next to them and the ends of the time
\* fields.
SUIDFloor == FromNat(1745400000)
GUIDFloor == Int64Of(0, 1649283, 606410581)
VerifySUIDs ==
    SUIDValues
    \cup {SUIDPack(t, FromNat(q), FromNat(h)) :
            t \in {FromNat(0), FromNat(1745399999), SUIDFloor,
                   FromNat(1745400001), MAX_TIME},
            q \in {0, MAX_SEQ}, h \in {0, MAX_HOST}}
VerifyGUIDs ==
    {ZeroGUID, FlipGUID(ZeroGUID)}
    \cup {GUIDPack(g, t, FromNat(q), FromNat(h)) :
            g \in {0, MAX_GROUP},
            t \in {FromNat(0), Int64Of(0, 1649283, 606410580), GUIDFloor,
                   Int64Of(0, 1649283, 606410582), MAX_GUID_TIME},
            q \in {0, _max_seq}, h \in {0, 127}}

\* The identifier a receiver holds before a decode, the text decoded into
\* it, the JSON forms of a set of texts (quoted; with one quote or both
\* replaced by a letter) and the values a driver hands to Scan.
SUIDHeld == Int64Of(1, 671658177, 1283)
GUIDHeld == FlipGUID(ZeroGUID)
SUIDText == encode(MinusOne)
GUIDText == encodeGUID(OneBitGUID(44))
Quoted(texts) == {<< 34 >> \o t \o << 34 >> : t \in texts}
Unquoted(t) == {<< 97 >> \o t \o << 34 >>, << 34 >> \o t \o << 97 >>,
                << 97 >> \o t \o << 97 >>}
ScanValues(n, texts) ==
    {[type |-> "int64", v |-> n], [type |-> "nil", v |-> << >>]}
    \cup {[type |-> "string", v |-> t] : t \in texts}
    \cup {[type |-> "bytes", v |-> t] : t \in texts}

FormInputs ==
    {[kind |-> "stext", s |-> t] : t \in TextInputs}
    \cup {[kind |-> "gtext", s |-> t] : t \in GUIDTextInputs}
    \cup {[kind |-> "sverify", v |-> v] : v \in VerifySUIDs}
    \cup {[kind |-> "gverify", v |-> v] : v \in VerifyGUIDs}
    \cup {[kind |-> "sjson", v |-> v] : v \in SUIDValues}
    \cup {[kind |-> "gjson", v |-> v] : v \in GUIDValues}
    \cup {[kind |-> "sinto", recv |-> SUIDHeld, op |-> "text", data |-> t] :
            t \in Spoiled(SUIDText)}
    \cup {[kind |-> "sinto", recv |-> SUIDHeld, op |-> "json", data |-> t] :
            t \in Quoted(Spoiled(SUIDText)) \cup Unquoted(SUIDText)}
    \cup {[kind |-> "sinto", recv |-> SUIDHeld, op |-> "scan", value |-> v] :
            v \in ScanValues(FromNat(1283), Spoiled(SUIDText))}
    \cup {[kind |-> "ginto", recv |-> GUIDHeld, op |-> "text", data |-> t] :
            t \in Spoiled(GUIDText)}
    \cup {[kind |-> "ginto", recv |-> GUIDHeld, op |-> "json", data |-> t] :
            t \in Quoted(Spoiled(GUIDText)) \cup Unquoted(GUIDText)}
    \cup {[kind |-> "ginto", recv |-> GUIDHeld, op |-> "scan", value |-> v] :
            v \in ScanValues(FromNat(1283), Spoiled(GUIDText))}
    \cup {[kind |-> k, c |-> c, g |-> MAX_GROUP, time |-> SUIDFloor,
            host |-> 127] :
              k \in {"snew", "gnew"},
              c \in {FromNat(0), FromNat(MAX_SEQ - 1), Add64(MaxInt64, MinusOne),
                     MaxInt64, MinInt64, Add64(MinusOne, MinusOne), MinusOne}}
    \cup {[kind |-> "uuid", g |-> g, t |-> FromNat(t), q |-> FromNat(q),
            h |-> FromNat(h)] :
              g \in {0, 63}, t \in {1745400000, 1745400001},
              q \in {1, 2, 65536}, h \in {0, 3, 200}}

TextInit ==
    /\ kind = "text"
    /\ _HOST_ID = 0
    /\ _SEQ = FromNat(0)
    /\ _seq = FromNat(0)
    /\ clock = FromNat(0)
    /\ calls = {}
    /\ returned = {}
    /\ hist = [calls |-> 0, ticks |-> 0, adds |-> 0, done |-> 0,
               tickAdds |-> 0, rateOK |-> TRUE, panics |-> 0,
               log |-> << >>]
    /\ _Builders = << >>
    /\ _BuilderLock = 0
    /\ arg \in FormInputs
    /\ val = << >> /\ txt = << >> /\ back = << >>

\* FromString(str) on a given text.
TextFromString ==
    /\ arg.kind = "stext" /\ back = << >>
    /\ txt' = << arg.s >>
    /\ back' = << FromString(arg.s) >>
    /\ UNCHANGED << genVars, arg, val >>

\* ParseGUID(str) on a given text.
TextParseGUID ==
    /\ arg.kind = "gtext" /\ back = << >>
    /\ txt' = << arg.s >>
    /\ back' = << ParseGUID(arg.s) >>
    /\ UNCHANGED << genVars, arg, val >>

\* s.Verify() on a SUID.
VerifySUID ==
    /\ arg.kind = "sverify" /\ back = << >>
    /\ val' = << FromInteger(arg.v) >>
    /\ back' = << SUID_Verify(FromInteger(arg.v)) >>
    /\ UNCHANGED << genVars, arg, txt >>

\* s.Verify() on a GUID.
VerifyGUID ==
    /\ arg.kind = "gverify" /\ back = << >>
    /\ val' = << arg.v >>
    /\ back' = << GUID_Verify(arg.v) >>
    /\ UNCHANGED << genVars, arg, txt >>

\* s.MarshalJSON() on a SUID.
MarshalSUID ==
    /\ arg.kind = "sjson" /\ txt = << >>
    /\ val' = << FromInteger(arg.v) >>
    /\ txt' = << SUID_MarshalJSON(FromInteger(arg.v)) >>
    /\ UNCHANGED << genVars, arg, back >>

\* var s SUID; s.UnmarshalJSON(data) on the bytes MarshalJSON gave.
UnmarshalSUID ==
    /\ arg.kind = "sjson" /\ txt # << >> /\ back = << >>
    /\ back' = << SUID_UnmarshalJSON(FromNat(0), txt[1]) >>
    /\ UNCHANGED << genVars, arg, val, txt >>

\* s.MarshalJSON() on a GUID.
MarshalGUID ==
    /\ arg.kind = "gjson" /\ txt = << >>
    /\ val' = << arg.v >>
    /\ txt' = << GUID_MarshalJSON(arg.v) >>
    /\ UNCHANGED << genVars, arg, back >>

\* var g GUID; g.UnmarshalJSON(data) on the bytes MarshalJSON gave.
UnmarshalGUID ==
    /\ arg.kind = "gjson" /\ txt # << >> /\ back = << >>
    /\ back' = << GUID_UnmarshalJSON(ZeroGUID, txt[1]) >>
    /\ UNCHANGED << genVars, arg, val, txt >>

\* id := NewUUID(g) from a clock reading, a counter value and a host id;
\* id.String(); ParseUUID of that text.
TextUUID ==
    /\ arg.kind = "uuid" /\ back = << >>
    /\ LET u == UUIDPack(arg.g, arg.t, arg.q, arg.h)
       IN  /\ val' = << u >>
           /\ txt' = << UUID_String(u) >>
           /\ back' = << ParseUUID(UUID_String(u)) >>
    /\ UNCHANGED << genVars, arg >>

\* New() with the counter _SEQ at a given value: the Add, the remainder and
\* the packing.
TextNew ==
    /\ arg.kind = "snew" /\ back = << >>
    /\ LET c == AtomicAdd(arg.c, 1)
           seq == Rem64(c, MAX_SEQ)
       IN  /\ val' = << SUIDPack(arg.time, seq, FromNat(arg.host)) >>
           /\ back' = << [c |-> c, seq |-> seq] >>
    /\ UNCHANGED << genVars, arg, txt >>

\* NewGUID(g) with the counter _seq at a given value.
TextNewGUID ==
    /\ arg.kind = "gnew" /\ back = << >>
    /\ LET c == AtomicAdd(arg.c, 1)
           seq == Rem64(c, _max_seq)
       IN  /\ val' = << GUIDPack(arg.g, arg.time, seq, FromNat(arg.host)) >>
           /\ back' = << [c |-> c, seq |-> seq] >>
    /\ UNCHANGED << genVars, arg, txt >>

\* s.UnmarshalText(data), s.UnmarshalJSON(data) or s.Scan(value) on a SUID
\* that holds arg.recv.
DecodeIntoSUID ==
    /\ arg.kind = "sinto" /\ back = << >>
    /\ val' = << arg.recv >>
    /\ back' = << CASE arg.op = "text" -> SUID_UnmarshalText(arg.recv, arg.data)
                   [] arg.op = "json" -> SUID_UnmarshalJSON(arg.recv, arg.data)
                   [] arg.op = "scan" -> SUID_Scan(arg.recv, arg.value) >>
    /\ UNCHANGED << genVars, arg, txt >>

\* The same three calls on a GUID that holds arg.recv; data is the caller's
\* slice as the call leaves it.
DecodeIntoGUID ==
    /\ arg.kind = "ginto" /\ back = << >>
    /\ val' = << arg.recv >>
    /\ back' = << CASE arg.op = "text" -> GUID_UnmarshalText(arg.recv, arg.data)
                   [] arg.op = "json" -> GUID_UnmarshalJSON(arg.recv, arg.data)
                   [] arg.op = "scan" -> GUID_Scan(arg.recv, arg.value) >>
    /\ UNCHANGED << genVars, arg, txt >>

TextNext ==
    \/ TextFromString
    \/ TextParseGUID
    \/ VerifySUID
    \/ VerifyGUID
    \/ MarshalSUID
    \/ UnmarshalSUID
    \/ MarshalGUID
    \/ UnmarshalGUID
    \/ TextUUID
    \/ DecodeIntoSUID
    \/ DecodeIntoGUID
    \/ TextNew
    \/ TextNewGUID

TextSpec == TextInit /\ [][TextNext]_vars

(***************************************************************************)
(* unnamed/part_002: the earlier, mutex-based SUID generator, with the     *)
(* layout sign(1)-group(3)-time(34)-seq(19)-host(7) and one builder per    *)
(* group.  Its constants carry the width in their names, where suid.go     *)
(* uses the same names for other values.  The clock is counted in seconds, *)
(* as a natural number.                                                    *)
(***************************************************************************)
MAX_HOST7 == 127
MAX_SEQ19 == 524287
MAX_TIME34 == Int64Of(0, 15, Pow2(30) - 1)
_WID_SEQ19 == bitWidth(MAX_SEQ19)
_WID_HOST7 == bitWidth(MAX_HOST7)
_WID_TIME34 == 34

MaxBacks == 1

\* The groups single calls of New are made with, and the groups of the loops
\* that call New(g) or New(), which is New(0), many times in a row.
MutexGroups == {MAX_GROUP, MAX_GROUP + 1}
MutexPastGroups == {0, MAX_GROUP}

\* What the process has done before the run begins: a loop for range max
\* { New(g) } has made `made` calls within the current second, one after the
\* other; the builder of the group was made `age` seconds before the first
\* of them locked it.
MutexPasts ==
    {[made |-> 0, g |-> 0, age |-> 0]}
    \cup {[made |-> m, g |-> g, age |-> 0] :
             m \in {2, MAX_SEQ19 - 1}, g \in MutexPastGroups}
    \cup {[made |-> MAX_SEQ19, g |-> MAX_GROUP, age |-> 1]}

\* b.group<<(_WID_TIME+_WID_SEQ+_WID_HOST) | b.thisTime<<(_WID_SEQ+_WID_HOST)
\* | b.seq<<_WID_HOST | _HOST_ID
BuilderPack(group, thisTime, seq, host) ==
    Or64(Or64(Or64(Shl64(FromNat(group), _WID_TIME34 + _WID_SEQ19 + _WID_HOST7),
                   Shl64(FromNat(thisTime), _WID_SEQ19 + _WID_HOST7)),
              Shl64(FromNat(seq), _WID_HOST7)),
         FromNat(host))

\* Time(), Seq() and Group() of this layout.
Builder_Time(s) == And64(Sar64(s, _WID_SEQ19 + _WID_HOST7), MAX_TIME34)
Builder_Seq(s) == And64(Sar64(s, _WID_HOST7), FromNat(MAX_SEQ19))
Builder_Group(s) ==
    And64(Sar64(s, _WID_TIME34 + _WID_SEQ19 + _WID_HOST7), FromNat(MAX_GROUP))

\* newBuilder(group); mx is the number of the call holding the mutex, 0 for
\* none; made counts the identifiers the builder has stamped.
newBuilder(group, now) ==
    [seq |-> 0, thisTime |-> 0, zeroTime |-> now, seqCount |-> 0,
     group |-> group, mx |-> 0, made |-> 0]

\* time.Until(time.Unix(thisTime, 0)), in seconds still to come.
UntilNone(thisTime, now) == 0
Until(thisTime, now) == thisTime - now

\* create with the test seqCount > MAX_SEQ + 1 for the overflow.
createLate(b) ==
    IF b.thisTime < b.zeroTime
    THEN [panic |-> TRUE, forced |-> FALSE, b |-> b]
    ELSE LET seq == IF b.seq + 1 > MAX_SEQ19 THEN 0 ELSE b.seq + 1
         IN  IF b.thisTime = b.zeroTime
             THEN IF b.seqCount + 1 > MAX_SEQ19 + 1
                  THEN [panic |-> FALSE, forced |-> TRUE,
                        b |-> [b EXCEPT !.seq = seq, !.seqCount = 0,
                                        !.thisTime = b.zeroTime + 1,
                                        !.zeroTime = b.zeroTime + 1,
                                        !.made = @ + 1]]
                  ELSE [panic |-> FALSE, forced |-> FALSE,
                        b |-> [b EXCEPT !.seq = seq, !.seqCount = @ + 1,
                                        !.made = @ + 1]]
             ELSE [panic |-> FALSE, forced |-> FALSE,
                   b |-> [b EXCEPT !.seq = seq, !.seqCount = 0,
                                   !.zeroTime = b.thisTime, !.made = @ + 1]]

\* create without the test for a clock that moved backwards.
createUnchecked(b) ==
    LET seq == IF b.seq + 1 > MAX_SEQ19 THEN 0 ELSE b.seq + 1
    IN  IF b.thisTime = b.zeroTime
        THEN IF b.seqCount + 1 > MAX_SEQ19
             THEN [panic |-> FALSE, forced |-> TRUE,
                   b |-> [b EXCEPT !.seq = seq, !.seqCount = 0,
                                   !.thisTime = b.zeroTime + 1,
                                   !.zeroTime = b.zeroTime + 1,
                                   !.made = @ + 1]]
             ELSE [panic |-> FALSE, forced |-> FALSE,
                   b |-> [b EXCEPT !.seq = seq, !.seqCount = @ + 1,
                                   !.made = @ + 1]]
        ELSE [panic |-> FALSE, forced |-> FALSE,
              b |-> [b EXCEPT !.seq = seq, !.seqCount = 0,
                              !.zeroTime = b.thisTime, !.made = @ + 1]]

\* builder.create from the test of the clock reading b.thisTime to the
\* builder as the return statement finds it: whether the call panics, whether
\* it was moved to the next second, and the builder.
create(b) ==
    IF b.thisTime < b.zeroTime
    THEN [panic |-> TRUE, forced |-> FALSE, b |-> b]
    ELSE LET seq == IF b.seq + 1 > MAX_SEQ19 THEN 0 ELSE b.seq + 1
         IN  IF b.thisTime = b.zeroTime
             THEN IF b.seqCount + 1 > MAX_SEQ19
                  THEN [panic |-> FALSE, forced |-> TRUE,
                        b |-> [b EXCEPT !.seq = seq, !.seqCount = 0,
                                        !.thisTime = b.zeroTime + 1,
                                        !.zeroTime = b.zeroTime + 1,
                                        !.made = @ + 1]]
                  ELSE [panic |-> FALSE, forced |-> FALSE,
                        b |-> [b EXCEPT !.seq = seq, !.seqCount = @ + 1,
                                        !.made = @ + 1]]
             ELSE [panic |-> FALSE, forced |-> FALSE,
                   b |-> [b EXCEPT !.seq = seq, !.seqCount = 0,
                                   !.zeroTime = b.thisTime, !.made = @ + 1]]

\* j calls of create in the second b.thisTime = b.zeroTime, none of which
\* finds seqCount above MAX_SEQ: each steps seq, seqCount and made.
createPlain(b, j) ==
    [b EXCEPT !.seq = (b.seq + j) % (MAX_SEQ19 + 1), !.seqCount = @ + j,
              !.made = @ + j]

\* n calls of create one after the other on one clock reading, until the
\* first that panics or is moved to the next second: the number of calls
\* that returned an identifier of this second, how the run ended, the
\* builder before its last call, what that call gave, and the builder.
RECURSIVE createEach(_, _, _)
createEach(b, n, plain) ==
    IF n = 0
    THEN [plain |-> plain, end |-> "done", before |-> b,
          r |-> [panic |-> FALSE, forced |-> FALSE, b |-> b], b |-> b]
    ELSE LET r == create(b)
         IN  IF r.panic
             THEN [plain |-> plain, end |-> "panic", before |-> b, r |-> r,
                   b |-> r.b]
             ELSE IF r.forced
             THEN [plain |-> plain, end |-> "forced", before |-> b, r |-> r,
                   b |-> r.b]
             ELSE createEach(r.b, n - 1, plain + 1)

\* k >= 1 calls of create one after the other on one clock reading, as far
\* as they get: the first call through create; then the calls that are sure
\* to find seqCount at most MAX_SEQ in one stride; then the last ones through
\* create again.
createLoop(b, k) ==
    LET first == createEach(b, 1, 0)
        room == MAX_SEQ19 - 1 - first.b.seqCount
        j == IF k - 2 < room THEN k - 2 ELSE room
        stride == IF j > 0 THEN j ELSE 0
    IN  IF first.end # "done" \/ k = 1 THEN first
        ELSE createEach(createPlain(first.b, stride), k - 1 - stride,
                        1 + stride)

\* A mutex whose holder returns or panics without the deferred Unlock.
UnlockSkipped(holder) == holder

\* defer _BuilderLock.Unlock() and defer b.mx.Unlock(): the mutex after its
\* holder has returned or panicked (0 is the free mutex).
Unlock(holder) == 0

\* The second the clock shows when the process starts, and the host ids of
\* the processes (getHostID masks with MAX_HOST).
MutexEpoch == 1745400001
MutexHosts == {MAX_HOST7}

\* The builder getBuilder(g) returns, and the map after the call.
getBuilder(g) ==
    IF g \in DOMAIN _Builders THEN _Builders[g] ELSE newBuilder(g, clock)

WithBuilder(b) ==
    [h \in DOMAIN _Builders \cup {b.group} |->
        IF h = b.group THEN b ELSE _Builders[h]]

\* What a call that stamped an identifier from builder b0 returns: its place
\* among the identifiers of the group, the identifier, its time field, the
\* clock reading it was made from, and the builder's zeroTime, seq and the
\* overflow it met.
Stamped(b0, r) ==
    [g |-> r.b.group, ord |-> r.b.made,
     id |-> BuilderPack(r.b.group, r.b.thisTime, r.b.seq, _HOST_ID),
     t |-> r.b.thisTime, read |-> b0.thisTime, zero |-> b0.zeroTime,
     s0 |-> b0.seq, forced |-> r.forced]

MutexInit ==
    /\ kind = "mutex"
    /\ _HOST_ID \in MutexHosts
    /\ _SEQ = FromNat(0)
    /\ _seq = FromNat(0)
    /\ clock = MutexEpoch
    /\ calls = {}
    /\ returned = {}
    /\ _BuilderLock = 0
    /\ arg = << >> /\ val = << >> /\ txt = << >> /\ back = << >>
    /\ \E p \in MutexPasts :
          LET b0 == newBuilder(p.g, MutexEpoch - p.age)
              x == createLoop([b0 EXCEPT !.thisTime = MutexEpoch], p.made)
          IN  /\ _Builders = IF p.made = 0 THEN << >>
                             ELSE [h \in {p.g} |-> x.b]
              /\ hist = [calls |-> 0, ticks |-> 0, backs |-> 0,
                         panics |-> 0, early |-> 0, refused |-> 0,
                         past |-> p.made,
                         log |-> IF p.made = 0 THEN << >>
                                 ELSE << [lo |-> 1, hi |-> p.made,
                                          g |-> p.g, t |-> MutexEpoch,
                                          s0 |-> 0] >>]

\* New(g) up to the return of getBuilder(g): under _BuilderLock, the builder
\* of the group is looked up, or made with the clock's second as zeroTime.
\* A group outside 0..MAX_GROUP panics.
GetBuilder(g) ==
    /\ kind = "mutex"
    /\ hist.calls < MaxCalls
    /\ _BuilderLock = 0
    /\ _BuilderLock' = Unlock(hist.calls + 1)
    /\ IF g < 0 \/ g > MAX_GROUP
       THEN /\ hist' = [hist EXCEPT !.calls = @ + 1, !.refused = @ + 1]
            /\ UNCHANGED << calls, _Builders >>
       ELSE /\ hist' = [hist EXCEPT !.calls = @ + 1]
            /\ _Builders' = WithBuilder(getBuilder(g))
            /\ calls' = calls \cup {[n |-> hist.calls + 1, g |-> g,
                                     pc |-> "lock", left |-> 0, res |-> None,
                                     after |-> hist.panics + hist.refused]}
    /\ UNCHANGED << kind, _HOST_ID, _SEQ, _seq, clock, returned, codecVars >>

\* create up to its sleep or its return: b.mx.Lock(), the clock reading, the
\* panic on a clock that moved backwards, or the sequence step and the
\* overflow; then the sleep begins with the mutex held, or the call returns
\* and the deferred Unlock runs.
Create(call) ==
    /\ kind = "mutex"
    /\ call \in calls
    /\ call.pc = "lock"
    /\ _Builders[call.g].mx = 0
    /\ LET b0 == [_Builders[call.g] EXCEPT !.mx = call.n, !.thisTime = clock]
           r == create(b0)
           dur == Until(r.b.thisTime, clock)
           res == Stamped(b0, r)
           early == IF b0.thisTime < b0.zeroTime THEN 1 ELSE 0
       IN  IF r.panic
           THEN /\ calls' = calls \ {call}
                /\ _Builders' = [_Builders EXCEPT ![call.g] =
                                    [r.b EXCEPT !.mx = Unlock(call.n)]]
                /\ hist' = [hist EXCEPT !.panics = @ + 1, !.early = @ + early]
                /\ UNCHANGED returned
           ELSE IF r.forced /\ dur > 0
           THEN /\ calls' = (calls \ {call})
                       \cup {[call EXCEPT !.pc = "sleep", !.left = dur,
                                          !.res = res]}
                /\ _Builders' = [_Builders EXCEPT ![call.g] = r.b]
                /\ hist' = [hist EXCEPT !.early = @ + early]
                /\ UNCHANGED returned
           ELSE /\ calls' = calls \ {call}
                /\ _Builders' = [_Builders EXCEPT ![call.g] =
                                    [r.b EXCEPT !.mx = Unlock(call.n)]]
                /\ returned' = returned \cup
                       {[n |-> call.n, rt |-> clock, res |-> res,
                         after |-> call.after]}
                /\ hist' = [hist EXCEPT !.early = @ + early]
    /\ UNCHANGED << kind, _HOST_ID, _SEQ, _seq, clock, _BuilderLock, codecVars >>

\* time.Sleep(dur) is over: the call returns and the deferred Unlock runs.
CreateWake(call) ==
    /\ kind = "mutex"
    /\ call \in calls
    /\ call.pc = "sleep"
    /\ call.left = 0
    /\ calls' = calls \ {call}
    /\ _Builders' = [_Builders EXCEPT ![call.g].mx = Unlock(call.n)]
    /\ returned' = returned \cup
           {[n |-> call.n, rt |-> clock, res |-> call.res,
             after |-> call.after]}
    /\ UNCHANGED << kind, _HOST_ID, _SEQ, _seq, clock, hist, _BuilderLock,
                    codecVars >>

\* The wall clock reaches the next second; the sleepers have one second less
\* to sleep.
MutexTick ==
    /\ kind = "mutex"
    /\ hist.ticks < MaxTicks
    /\ clock' = clock + 1
    /\ calls' = {[c EXCEPT !.left = IF @ > 0 THEN @ - 1 ELSE 0] : c \in calls}
    /\ hist' = [hist EXCEPT !.ticks = @ + 1]
    /\ UNCHANGED << kind, _HOST_ID, _SEQ, _seq, returned, _Builders, _BuilderLock,
                    codecVars >>

\* The wall clock is set back by one second; time.Sleep, which measures
\* elapsed time, is not affected.
MutexStepBack ==
    /\ kind = "mutex"
    /\ hist.backs < MaxBacks
    /\ clock' = clock - 1
    /\ hist' = [hist EXCEPT !.backs = @ + 1]
    /\ UNCHANGED << kind, _HOST_ID, _SEQ, _seq, calls, returned, _Builders, _BuilderLock,
                    codecVars >>

MutexNext ==
    \/ \E g \in MutexGroups : GetBuilder(g)
    \/ \E call \in calls : Create(call)
    \/ \E call \in calls : CreateWake(call)
    \/ MutexTick
    \/ MutexStepBack

MutexSpec == MutexInit /\ [][MutexNext]_vars

(***************************************************************************)
(* Properties of the generators, stated over the runs of Spec.             *)
(***************************************************************************)

\* The sequence values a tick can hold, as the identifier layout has them.
MaxSeqOf(k) == IF k = "suid" THEN MAX_SEQ ELSE _max_seq

\* The host ids the kind's host field holds: 8 bits for a SUID, 7 for a GUID.
HostFits == _HOST_ID <= (IF kind = "suid" THEN MAX_HOST ELSE 127)

\* A returned call that ran entirely within the current tick.
InThisTick(r) == r.st = clock /\ r.t = clock

\* 0 <= t <= max
TimeInRange(t, max) == ~Less64(t, FromNat(0)) /\ ~Less64(max, t)

\* C1: for each kind, when at most MAX_SEQ+1 identifiers (the kind's MAX_SEQ)
\* are generated on one host within a single clock tick, by any number of
\* parallel callers, the identifiers returned in that tick are pairwise
\* distinct.  Stated for hosts whose id fits the kind's host field.
C1_DistinctWithinTick ==
    (HostFits /\ hist.tickAdds <= MaxSeqOf(kind) + 1) =>
        \A r1 \in returned : \A r2 \in returned :
            (r1.n # r2.n /\ InThisTick(r1) /\ InThisTick(r2)) => r1.id # r2.id

\* C2: in every interleaving of New() calls on one host in which at most
\* 4194303 calls are started during any one clock second, all returned SUIDs
\* are pairwise distinct, a caller delayed between taking its sequence number
\* and reading the clock included.
C2_DistinctAtRate ==
    (kind = "suid" /\ hist.rateOK) =>
        \A r1 \in returned : \A r2 \in returned :
            r1.n # r2.n => r1.id # r2.id

\* The counter of the running kind, and the values calls have obtained from it.
Counter == IF kind = "suid" THEN _SEQ ELSE _seq
Obtained ==
    {[n |-> r.n, c |-> r.c] : r \in returned}
    \cup (IF kind = "suid" THEN {[n |-> x.n, c |-> x.c] : x \in calls} ELSE {})

\* C3: no two calls of New()/NewGUID() obtain the same value from the kind's
\* shared counter, and the counter has advanced by exactly the number of
\* calls that have added to it: the completed calls, and for New the calls
\* between their Add and their return.
C3_NoLostUpdate ==
    /\ \A x \in Obtained : \A y \in Obtained : x.n # y.n => x.c # y.c
    /\ Counter = FromNat(hist.done +
                         (IF kind = "suid" THEN Cardinality(calls) ELSE 0))

\* Two kept calls have completed after the calls of a loop that drops its
\* identifiers.
C3_Witness ==
    /\ calls = {} /\ Cardinality(returned) = 2 /\ hist.past > 0
    /\ \E r1 \in returned : \E r2 \in returned : Less64(r1.c, r2.c)

\* C4: a call of New() or of NewGUID() with a valid group is never made to
\* wait: in every state, whatever the clock and the other callers have done,
\* each call in progress can take its one remaining step, which returns it;
\* every call started is in progress, has returned, or was refused for its
\* group.  This holds with more than MAX_SEQ+1 identifiers requested in the
\* tick as well.
C4_NeverBlocks ==
    /\ \A call \in calls :
          IF kind = "suid" THEN NewReturnReady(call) ELSE NewGUIDAddReady(call)
    /\ hist.calls = Cardinality(calls) + Cardinality(returned) + hist.panics
    /\ hist.adds = hist.done + (IF kind = "suid" THEN Cardinality(calls) ELSE 0)

\* A call is between its two steps in a tick that has seen more than
\* MAX_SEQ+1 requests, while another call has already returned.
C4_Witness ==
    /\ calls # {} /\ returned # {}
    /\ hist.tickAdds > MaxSeqOf(kind) + 1

\* C6: two SUIDs generated at clock readings t1 < t2, both in [0, 2^33-1],
\* have Integer(id1) < Integer(id2) whatever their sequence values; two GUIDs
\* of one group generated at t1 < t2 microseconds, both in [0, 2^53-1],
\* compare byte-wise in that order.
C6_TimeOrdered ==
    \A r1 \in returned : \A r2 \in returned :
        /\ (kind = "suid" /\ r1.t # r2.t /\ Less64(r1.t, r2.t)
              /\ TimeInRange(r1.t, MAX_TIME) /\ TimeInRange(r2.t, MAX_TIME))
           => Less64(SUID_Integer(r1.id), SUID_Integer(r2.id))
        /\ (kind = "guid" /\ r1.g = r2.g /\ r1.t # r2.t /\ Less64(r1.t, r2.t)
              /\ TimeInRange(r1.t, MAX_GUID_TIME)
              /\ TimeInRange(r2.t, MAX_GUID_TIME))
           => LexLess(r1.id, r2.id)

\* The later SUID, made in the last second the time field holds, carries the
\* smaller sequence value.
C6_Witness ==
    /\ kind = "suid"
    /\ \E r1 \in returned : \E r2 \in returned :
          /\ Less64(r1.t, r2.t) /\ r2.t = MAX_TIME
          /\ Less64(SUID_Seq(r2.id), SUID_Seq(r1.id))

\* HostID(): return _HOST_ID
HostID == FromNat(_HOST_ID)

\* C11: every identifier New() or NewGUID() has returned carries in its host
\* field the host id of the process, the value HostID() returns.
C11_HostField ==
    \A r \in returned :
        IF kind = "suid" THEN SUID_Host(r.id) = HostID
        ELSE GUID_HostID(r.id) = HostID

\* C12: a call of NewGUID with a group above 7 never returns a GUID: each call
\* is refused, in progress or returned, every GUID returned was asked for with
\* a group of at most 7 and carries that group, and so none carries the low
\* three bits of a refused group.
C12_GroupRejected ==
    kind = "guid" =>
        /\ \A r \in returned :
              /\ r.g \in {g \in Groups : g <= MAX_GROUP}
              /\ GUID_Group(r.id) = r.g
              /\ GUID_Group(r.id) \notin {g % (MAX_GROUP + 1) : g \in {h \in Groups : h > MAX_GROUP}}
        /\ \A call \in calls : call.g <= MAX_GROUP
        /\ hist.calls = Cardinality(calls) + Cardinality(returned) + hist.panics

\* A call with group 8 has been refused and a call with group 7 has returned.
C12_Witness ==
    /\ kind = "guid" /\ hist.panics = 1
    /\ \E r \in returned : GUID_Group(r.id) = MAX_GROUP

\* C13: a call of NewGUID with an invalid group hands the caller an error
\* value; no call ends in a panic.
C13_NoPanic == hist.panics = 0

\* The identifiers of the current tick.  The counter values taken in the
\* tick are hist.tickAdds consecutive ones; they fall into runs, one per kept
\* call and one for the calls the loop had made before, each run with its
\* group and its clock reading.
TickRuns ==
    {[lo |-> LowBits(r.c, 30), hi |-> LowBits(r.c, 30), g |-> r.g, t |-> r.t] :
        r \in {x \in returned : x.st = clock}}
    \cup {hist.log[i] : i \in {j \in 1..Len(hist.log) : hist.log[j].t = clock}}

\* The identifier the call that took counter value c in run x returned.
IdAt(x, c) ==
    IF kind = "suid"
    THEN SUIDPack(x.t, Rem64(FromNat(c), MAX_SEQ), HostID)
    ELSE GUIDPack(x.g, x.t, Rem64(FromNat(c), _max_seq), HostID)

\* The distances between two counter values whose identifiers can be equal:
\* a multiple of the modulus, or one off it where the host id covers the low
\* bit of the sequence.
TwinGaps ==
    {j * MaxSeqOf(kind) + e : j \in 0..2, e \in {-1, 0, 1}} \ {-1, 0}

\* Two different calls of the current tick have returned the same identifier.
TickDuplicate ==
    \E x \in TickRuns : \E y \in TickRuns :
        \E a \in {x.lo, x.lo + 1, x.lo + 2} : \E d \in TwinGaps :
            \E b \in {a + d, a - d} :
                /\ a \in x.lo..x.hi
                /\ b \in y.lo..y.hi
                /\ IdAt(x, a) = IdAt(y, b)

\* Every call that took a counter value in the current tick began and ended
\* in it.
AllInTick ==
    /\ calls = {}
    /\ \A r \in returned : r.st = clock => r.t = clock

\* C17 as stated: when MAX_SEQ+2 identifiers of one kind are generated on one
\* host within a single tick, at least two of them are bit-identical, and
\* every call has returned an identifier.
C17_CollisionBoundary ==
    (hist.tickAdds >= MaxSeqOf(kind) + 2 /\ AllInTick) =>
        /\ TickDuplicate
        /\ hist.done = hist.adds

\* C17, amended: when MAX_SEQ+2 identifiers of one kind and, for GUIDs, of
\* one group are generated on one host within a single tick, at least two of
\* them are bit-identical, and every call has returned an identifier, each
\* kept one the identifier its counter value gives.
C17_CollisionBoundaryOneGroup ==
    (hist.tickAdds >= MaxSeqOf(kind) + 2 /\ AllInTick
       /\ \A x \in TickRuns : \A y \in TickRuns : x.g = y.g) =>
        /\ TickDuplicate
        /\ hist.done = hist.adds
        /\ \A r \in returned : r.st = clock =>
              r.id = IdAt([g |-> r.g, t |-> r.t], LowBits(r.c, 30))

\* MAX_GROUP-group GUIDs: the calls of a loop and two kept calls, MAX_SEQ+2
\* in one microsecond, one kept GUID equal to one of the loop's.
C17_Witness ==
    /\ kind = "guid" /\ HostFits
    /\ hist.tickAdds = _max_seq + 2 /\ AllInTick
    /\ Cardinality(returned) = 2
    /\ \A x \in TickRuns : x.g = MAX_GROUP
    /\ TickDuplicate

\* C26: a NewGUID call rejected for an invalid group leaves the shared
\* counter unchanged: in every state the counter is the number of sequence
\* values taken by accepted calls, so the next accepted call receives the
\* value it would have received without the rejected call.
C26_RejectedKeepsCounter == kind = "guid" => _seq = FromNat(hist.adds)

\* C26 witness: the first call was rejected and the call made after it has
\* returned with the counter value 1.
C26_Witness ==
    /\ kind = "guid" /\ hist.panics >= 1
    /\ \E r \in returned : r.n = 2 /\ r.c = FromNat(1)

\* C22: the sequence value given to the k-th identifier generated for a
\* kind since the process started is k mod (MAX_SEQ+1), with the kind's
\* MAX_SEQ, whatever the clock tick and the group of the call.
C22_SeqOfKth ==
    \A r \in returned :
        r.seq = FromNat(LowBits(r.c, 30) % (MaxSeqOf(kind) + 1))

\* C23: no identifier is returned whose Time() differs from the clock
\* reading of its call, or whose top bit (SUID) or group (GUID) the time has
\* overwritten: a clock reading beyond the time field makes the call fail.
C23_TimeFailsFast ==
    \A r \in returned :
        IF kind = "suid"
        THEN SUID_Time(r.id) = r.t /\ r.id[1] = 0
        ELSE GUID_Time(r.id) = r.t /\ GUID_Group(r.id) = r.g

\* C24: for every host id the resolver can produce, 128..255 included, the
\* Seq() of a GUID NewGUID returns is the sequence value allocated for the
\* call.
C24_SeqKept ==
    kind = "guid" => \A r \in returned : GUID_Seq(r.id) = r.seq

(***************************************************************************)
(* Properties of the mutex-based generator, stated over the runs of        *)
(* MutexSpec.                                                              *)
(***************************************************************************)
\* What New has stamped for its callers: the results returned, and those of
\* the calls that sleep until their second has come.
Issued ==
    {r.res : r \in returned} \cup {c.res : c \in {x \in calls : x.pc = "sleep"}}

\* The identifiers of each group in the order the builder stamped them, as
\* runs: single calls, and the calls the loop had made before.
MutexRuns ==
    {[lo |-> x.ord, hi |-> x.ord, g |-> x.g, t |-> x.t, s0 |-> x.s0] :
        x \in Issued}
    \cup {hist.log[i] : i \in 1..Len(hist.log)}

\* The identifier stamped as number c of its group, in run x.
MutexIdAt(x, c) ==
    BuilderPack(x.g, x.t, (x.s0 + (c - x.lo) + 1) % (MAX_SEQ19 + 1), _HOST_ID)

\* The distances between two identifiers of a group that carry the same
\* sequence value.
MutexTwinGaps == {j * (MAX_SEQ19 + 1) : j \in 1..2}

\* Run y follows run x in the order its group's builder stamped them, with
\* no run of the group between the two.
MutexAdjacent(x, y) ==
    ~\E z \in MutexRuns : z.g = x.g /\ x.hi < z.lo /\ z.hi < y.lo

\* Two different calls for one group were given the same identifier.
MutexDuplicate ==
    \E x \in MutexRuns : \E y \in MutexRuns : \E d \in MutexTwinGaps :
        \E b \in {x.lo + d, x.lo - d} :
            /\ x.g = y.g
            /\ b \in y.lo..y.hi
            /\ MutexIdAt(x, x.lo) = MutexIdAt(y, b)

\* C18: under a clock that never moves backwards, the SUIDs New returns for
\* one group are pairwise distinct, whatever the number of calls and their
\* interleaving, also when more than MAX_SEQ+1 are requested within one
\* second; and SUIDs of different groups are distinct, as each carries its
\* group.
C18_MutexDistinct ==
    hist.backs = 0 =>
        /\ \A x \in Issued : \A y \in Issued : x # y => x.id # y.id
        /\ \A x \in Issued :
              x.id = MutexIdAt([lo |-> x.ord, g |-> x.g, t |-> x.t,
                                s0 |-> x.s0], x.ord)
        /\ ~MutexDuplicate
        /\ \A x \in MutexRuns : \A c \in {x.lo, x.hi} :
              Builder_Group(MutexIdAt(x, c)) = FromNat(x.g)

\* The number of identifiers of group g with the time field t among the
\* first n runs of the log, and among all that were stamped.
RECURSIVE LogCount(_, _, _)
LogCount(g, t, n) ==
    IF n = 0 THEN 0
    ELSE LogCount(g, t, n - 1)
         + (IF hist.log[n].g = g /\ hist.log[n].t = t
            THEN hist.log[n].hi - hist.log[n].lo + 1 ELSE 0)

StampCount(g, t) ==
    Cardinality({x \in Issued : x.g = g /\ x.t = t})
    + LogCount(g, t, Len(hist.log))

\* MAX_SEQ+2 calls for one group within one second: a loop of MAX_SEQ
\* calls, a call that completes the second, and the call that was moved to
\* the next second, with the sequence value of the loop's first.
C18_Witness ==
    /\ hist.backs = 0
    /\ \E x \in Issued : \E y \in Issued : \E z \in MutexRuns :
          /\ x.g = y.g /\ z.g = y.g
          /\ x.read = y.read /\ z.t = y.read
          /\ ~x.forced /\ x.t = x.read
          /\ StampCount(x.g, x.read) = MAX_SEQ19 + 1
          /\ y.forced /\ y.t = x.t + 1
          /\ Builder_Seq(MutexIdAt(z, z.lo)) = Builder_Seq(y.id)

\* At most MAX_SEQ+1 identifiers of one group carry the same time field, and
\* a call moved on by the overflow is stamped with the second after the one
\* it read.
StampsBounded ==
    /\ \A x \in MutexRuns : StampCount(x.g, x.t) <= MAX_SEQ19 + 1
    /\ \A x \in Issued : x.forced => x.t = x.read + 1

\* C19 as stated: at most MAX_SEQ+1 SUIDs of one group carry the same time
\* field; the call that would exceed this is stamped with the following
\* second, and no returned SUID has a time field later than the clock at the
\* moment it is returned.
C19_NextSecond ==
    /\ StampsBounded
    /\ \A r \in returned : r.res.t <= r.rt

\* C19, amended: at most MAX_SEQ+1 SUIDs of one group carry the same time
\* field; the call that would exceed this is stamped with the following
\* second, and under a clock that never moves backwards no returned SUID has
\* a time field later than the clock at the moment it is returned.
C19_NextSecondForwardClock ==
    /\ StampsBounded
    /\ hist.backs = 0 => \A r \in returned : r.res.t <= r.rt

\* The calls of a loop have filled the second; the next call of the group
\* was stamped with the following second, slept, and returned when the
\* clock had reached it.
C19_Witness ==
    /\ hist.backs = 0
    /\ \E r \in returned :
          /\ r.res.forced
          /\ r.res.t = r.res.read + 1
          /\ r.rt = r.res.t
          /\ StampCount(r.res.g, r.res.read) >= MAX_SEQ19

\* C20: whenever the clock reads a second earlier than the last second the
\* group's builder recorded, New panics instead of returning an identifier:
\* the panics are as many as such readings, and no identifier was stamped
\* from one; and the time fields of the SUIDs of one group, in the order they
\* were stamped and returned, never decrease from one to the next.
C20_ClockBackPanics ==
    /\ hist.panics = hist.early
    /\ \A x \in Issued : x.read >= x.zero
    /\ \A x \in MutexRuns : \A y \in MutexRuns :
          (x.g = y.g /\ x.hi < y.lo /\ MutexAdjacent(x, y)) =>
              ~Less64(Builder_Time(MutexIdAt(y, y.lo)),
                      Builder_Time(MutexIdAt(x, x.hi)))

\* A group has returned a SUID; the clock was then set back to before the
\* second of that SUID, and the next call for the group has panicked.
C20_Witness ==
    /\ hist.panics >= 1
    /\ hist.backs >= 1
    /\ \E r \in returned :
          /\ clock < r.res.t
          /\ _Builders[r.res.g].zeroTime = r.res.t
          /\ _Builders[r.res.g].thisTime = clock
          /\ _Builders[r.res.g].made = r.res.ord

\* C30: a New call that panics, for an invalid group inside getBuilder or
\* for a clock that moved backwards inside create, releases every lock it
\* holds: _BuilderLock is free after every getBuilder, and a builder's mutex
\* is held only by a call that is still running (asleep until the next
\* second), so no later call waits for a lock whose holder is gone.
C30_PanicReleases ==
    kind = "mutex" =>
        /\ _BuilderLock = 0
        /\ \A g \in DOMAIN _Builders :
              _Builders[g].mx # 0 =>
                  \E c \in calls :
                      c.n = _Builders[g].mx /\ c.g = g /\ c.pc = "sleep"

\* C30 witness: a call has panicked inside create on a clock that moved
\* backwards, and a call of the same group made after that panic has locked
\* the builder, returned and left its mutex free.
C30_Witness ==
    /\ hist.panics >= 1
    /\ \E r \in returned :
          /\ r.after >= 1
          /\ r.res.g = MAX_GROUP
          /\ _Builders[r.res.g].mx = 0

(***************************************************************************)
(* Properties of the codecs and of the packing, stated over the runs of    *)
(* CodecSpec.                                                              *)
(***************************************************************************)

\* The 80 bits of a GUID, the most significant bit of byte 0 first.
GUIDBits(u) ==
    SubSeq([k \in 1..80 |->
              (u[((k - 1) \div 8) + 1] \div Pow2(7 - ((k - 1) % 8))) % 2], 1, 80)

\* The low n bits of a 64-bit word, the most significant of them first.
Field(w, n) == SubSeq(w, W64 - n + 1, W64)

\* C5: the text form keeps the order, as it would with an alphabet whose 32
\* symbols ascend in byte order: for non-negative SUID values a < b,
\* String(a) is below String(b) byte by byte; and two GUIDs' 16-character
\* texts are in the order of their ten bytes.
C5_TextOrder ==
    /\ (arg.kind = "suid" /\ txt # << >>) =>
          ((TimeInRange(val[1], MaxInt64) /\ TimeInRange(val[2], MaxInt64)
              /\ Less64(val[1], val[2])) => LexLess(txt[1], txt[2]))
    /\ (arg.kind = "guid" /\ txt # << >>) =>
          (LexLess(txt[1], txt[2]) <=> LexLess(val[1], val[2]))

\* C7: for every 64-bit SUID value v, zero, the largest positive value and
\* the values with the top bit set included, FromString(v.String()) returns
\* v with a nil error.
C7_RoundTrip ==
    (IsSUID /\ back # << >>) => back[1] = [value |-> val[1], err |-> NilErr]

\* The smallest int64, whose only set bit is the top one, has gone through
\* String and FromString.
C7_Witness ==
    /\ arg.kind = "suid" /\ back # << >>
    /\ val[1] = MinInt64 /\ back[1].value = MinInt64
    /\ Len(txt[1]) = 13

\* C8: for every ten-byte GUID value g, ParseGUID(g.String()) returns g with
\* a nil error.
C8_GUIDRoundTrip ==
    (~IsSUID /\ back # << >>) => back[1] = [u |-> val[1], err |-> NilErr]

\* The GUID of eighty set bits has gone through String and ParseGUID.
C8_Witness ==
    /\ arg.kind = "guid" /\ back # << >>
    /\ val[1] = FlipGUID(ZeroGUID) /\ back[1].u = FlipGUID(ZeroGUID)
    /\ Len(txt[1]) = 16

\* C9: for a time in [0, 2^33-1], a sequence in [0, 2^22-1] and a host in
\* [0, 255], the value New builds is (time << 30) | (sequence << 8) | host:
\* a zero sign bit, the 33 bits of the time, the 22 of the sequence and the 8
\* of the host; Time(), Seq() and Host() of it return the three inputs.
C9_SUIDPack ==
    (arg.kind = "newsuid" /\ val # << >>
       /\ TimeInRange(arg.time, MAX_TIME)
       /\ TimeInRange(arg.seq, FromNat(MAX_SEQ))
       /\ arg.host \in 0..MAX_HOST) =>
        /\ val[1] = << 0 >> \o Field(arg.time, 33) \o Field(arg.seq, 22)
                            \o Field(FromNat(arg.host), 8)
        /\ SUID_Time(val[1]) = arg.time
        /\ SUID_Seq(val[1]) = arg.seq
        /\ SUID_Host(val[1]) = FromNat(arg.host)

\* time = 1745400001, sequence = 5, host = 3 packed into
\* (1745400001 << 30) | (5 << 8) | 3.
C9_Witness ==
    /\ arg = [kind |-> "newsuid", time |-> FromNat(1745400001),
              seq |-> FromNat(5), host |-> 3]
    /\ val # << >>
    /\ val[1] = Int64Of(1, 671658177, 1283)

\* C10: for a group in [0, 7], a time in [0, 2^53-1], a sequence in
\* [0, 2^17-1] and a host in [0, 127], the ten bytes NewGUID builds are the 3
\* bits of the group, the 53 of the time, the 17 of the sequence and the 7 of
\* the host one after the other, no bit shared; Group(), Time(), Seq() and
\* HostID() of them return the four inputs.
C10_GUIDPack ==
    (arg.kind = "newguid" /\ val # << >>
       /\ arg.g \in 0..MAX_GROUP
       /\ TimeInRange(arg.time, MAX_GUID_TIME)
       /\ TimeInRange(arg.seq, FromNat(_max_seq))
       /\ arg.host \in 0..127) =>
        /\ GUIDBits(val[1]) = Field(FromNat(arg.g), 3) \o Field(arg.time, 53)
                                \o Field(arg.seq, 17)
                                \o Field(FromNat(arg.host), 7)
        /\ GUID_Group(val[1]) = arg.g
        /\ GUID_Time(val[1]) = arg.time
        /\ GUID_Seq(val[1]) = arg.seq
        /\ GUID_HostID(val[1]) = FromNat(arg.host)

\* Every field at its largest value: ten bytes of 0xff.
C10_Witness ==
    /\ arg = [kind |-> "newguid", g |-> MAX_GROUP, time |-> MAX_GUID_TIME,
              seq |-> FromNat(_max_seq), host |-> 127]
    /\ val # << >>
    /\ val[1] = FlipGUID(ZeroGUID)

(***************************************************************************)
(* Properties of text decoding, Verify and JSON, stated over the runs of   *)
(* TextSpec.                                                               *)
(***************************************************************************)

\* The 32 symbols of the alphabet.
Alphabet == {_ENCODE[i] : i \in 1..32}

\* A text of n bytes, each a symbol of the alphabet.
WellFormed(t, n) == Len(t) = n /\ \A i \in 1..Len(t) : t[i] \in Alphabet

\* C14: FromString accepts exactly the texts of 13 alphabet symbols and
\* ParseGUID exactly those of 16; for every other text (shorter, longer, a
\* byte outside the alphabet at any position) they return a non-nil error
\* and the zero identifier.
C14_DecodeStrict ==
    /\ (arg.kind = "stext" /\ back # << >>) =>
          IF WellFormed(arg.s, 13) THEN back[1].err = NilErr
          ELSE back[1].err # NilErr /\ back[1].value = FromNat(0)
    /\ (arg.kind = "gtext" /\ back # << >>) =>
          IF WellFormed(arg.s, 16) THEN back[1].err = NilErr
          ELSE back[1].err # NilErr /\ back[1].u = ZeroGUID

\* A GUID text of 17 symbols has been refused.
C14_Witness ==
    /\ arg.kind = "gtext" /\ back # << >>
    /\ Len(arg.s) = 17 /\ \A i \in 1..17 : arg.s[i] \in Alphabet
    /\ back[1].err # NilErr /\ back[1].u = ZeroGUID

\* C15: Verify() is true exactly when the time field of the identifier is
\* above the floor of its kind, 1745400000 seconds for a SUID and
\* 1770904743122773 microseconds for a GUID; it is false for a time equal to
\* the floor and for the all-zero identifier.
C15_VerifyFloor ==
    /\ (arg.kind = "sverify" /\ back # << >>) =>
          (back[1] <=> Less64(SUIDFloor, SUID_Time(val[1])))
    /\ (arg.kind = "gverify" /\ back # << >>) =>
          (back[1] <=> Less64(GUIDFloor, GUID_Time(val[1])))

\* C16: MarshalJSON gives the text form between two double quotes, 15 bytes
\* for a SUID and 18 for a GUID, and UnmarshalJSON of these bytes restores
\* the identifier with a nil error.
C16_JSONRoundTrip ==
    /\ (arg.kind = "sjson" /\ txt # << >>) =>
          /\ Len(txt[1]) = 15
          /\ txt[1] = << 34 >> \o SUID_String(val[1]) \o << 34 >>
    /\ (arg.kind = "sjson" /\ back # << >>) =>
          back[1] = [s |-> val[1], err |-> NilErr]
    /\ (arg.kind = "gjson" /\ txt # << >>) =>
          /\ Len(txt[1]) = 18
          /\ txt[1] = << 34 >> \o GUID_String(val[1]) \o << 34 >>
    /\ (arg.kind = "gjson" /\ back # << >>) =>
          /\ back[1].s = val[1]
          /\ back[1].err = NilErr

\* The SUID with every bit set has gone through MarshalJSON and
\* UnmarshalJSON.
C16_Witness ==
    /\ arg.kind = "sjson" /\ back # << >>
    /\ val[1] = MinusOne /\ back[1].s = MinusOne
    /\ Len(txt[1]) = 15

\* C21: for every UUID u produced by NewUUID, ParseUUID(u.String()) returns
\* a UUID equal to u with a nil error.
C21_UUIDRoundTrip ==
    (arg.kind = "uuid" /\ back # << >>) =>
        /\ back[1].err = NilErr
        /\ back[1].u = val[1]

\* C25: for any state of the 64-bit counter, also after it has overflowed
\* past 2^63-1, the sequence value New/NewGUID pack is within [0, MAX_SEQ]
\* (the kind's), and the identifier's Time() is the clock reading and its
\* host field the host id.
C25_AnyCounter ==
    /\ (arg.kind = "snew" /\ back # << >>) =>
          /\ TimeInRange(back[1].seq, FromNat(MAX_SEQ))
          /\ SUID_Time(val[1]) = arg.time
          /\ SUID_Host(val[1]) = FromNat(arg.host)
    /\ (arg.kind = "gnew" /\ back # << >>) =>
          /\ TimeInRange(back[1].seq, FromNat(_max_seq))
          /\ GUID_Time(val[1]) = arg.time
          /\ GUID_HostID(val[1]) = FromNat(arg.host)

\* C27: a failed decode leaves the receiver unchanged: when UnmarshalText,
\* UnmarshalJSON or Scan of a SUID or a GUID returns an error, the receiver
\* holds the identifier it held before the call.
C27_FailedDecodeKeeps ==
    (arg.kind \in {"sinto", "ginto"} /\ back # << >> /\ back[1].err # NilErr)
        => back[1].s = arg.recv

\* C27 witness: Scan of a string with a byte outside the alphabet has failed
\* on a GUID that held a non-zero identifier, and the GUID still holds it.
C27_Witness ==
    /\ arg.kind = "ginto" /\ arg.op = "scan" /\ back # << >>
    /\ arg.recv # ZeroGUID
    /\ back[1].err = "invalid character in uuid string"
    /\ back[1].s = arg.recv

\* C28: decoding does not modify its input: after GUID.UnmarshalText or
\* GUID.UnmarshalJSON returns, with or without an error, the caller's byte
\* slice holds the bytes it held before the call.
C28_InputKept ==
    /\ (arg.kind = "gjson" /\ back # << >>) => back[1].data = txt[1]
    /\ (arg.kind = "ginto" /\ arg.op \in {"text", "json"} /\ back # << >>)
          => back[1].data = arg.data

\* C29: SUID text decoding is injective: for every 13-symbol text s that
\* FromString accepts, FromString(s).String() = s.
C29_DecodeInjective ==
    (arg.kind = "stext" /\ back # << >> /\ back[1].err = NilErr)
        => SUID_String(back[1].value) = arg.s

=============================================================================
